---- MODULE Spec2Model ----
(***************************************************************************)
(* Network parameter registry of package bitcoin (src/bitcoin/params.go):  *)
(* the five package-level maps, Register / mustRegister / RegisterHDKeyID, *)
(* the three address-prefix queries, HDPrivateKeyToPublicKeyID and the     *)
(* package init() that registers the three built-in parameter sets.        *)
(*                                                                         *)
(* A Go slice is modelled as a reference [array, len] into mem, the        *)
(* backing arrays owned by the Params objects and by the callers, because  *)
(* hdPrivToPubKeyIDs stores the slice it is handed and not a copy.         *)
(***************************************************************************)
EXTENDS Integers, Sequences, FiniteSets, TLC

VARIABLES
    pc,                  \* position of init(): the built-in to register next, "done" or "panic"
    registeredNets,      \* map[wire.BitcoinNet]struct{}  (its key set)
    pubKeyHashAddrIDs,   \* map[byte]struct{}
    scriptHashAddrIDs,   \* map[byte]struct{}
    stakingHashAddrIDs,  \* map[byte]struct{}
    hdPrivToPubKeyIDs,   \* map[[4]byte][]byte: function from 4-byte keys to slices
    mem,                 \* backing arrays the stored slices point into
    last,                \* the last call made and what it returned
    accepted,            \* history: the Params of every Register call that returned nil
    hdStored,            \* history: private versions of RegisterHDKeyID calls that returned nil
    goroutines           \* calls running concurrently: the line each is at, its arguments and result

vars == <<pc, registeredNets, pubKeyHashAddrIDs, scriptHashAddrIDs,
          stakingHashAddrIDs, hdPrivToPubKeyIDs, mem, last, accepted, hdStored,
          goroutines>>

registry == <<registeredNets, pubKeyHashAddrIDs, scriptHashAddrIDs,
              stakingHashAddrIDs, hdPrivToPubKeyIDs>>

\* Cap on the length of the history of accepted registrations.
MaxAccepted == 6

\* Cap on the number of backing arrays a caller overwrites.
MaxWrites == 1

Byte == 0..255

(***************************************************************************)
(* Errors                                                                  *)
(***************************************************************************)
NoErr == "nil"
ErrDuplicateNet == "duplicate Bitcoin network"
ErrUnknownHDKeyID == "unknown hd private extended key bytes"
ErrInvalidHDKeyID == "invalid hd extended key version bytes"

(***************************************************************************)
(* Network magics                                                          *)
(***************************************************************************)
\* A wire.BitcoinNet is a uint32; it is written here as its four bytes, most
\* significant first, since the registry only compares magics for equality.
MainNet == <<233, 253, 196, 144>>       \* 0xe9fdc490
WireTestNet3_sameAsMainNet == MainNet

WireTestNet3 == <<7, 9, 17, 11>>        \* wire.TestNet3 = 0x0709110b
WireTestNet == <<218, 181, 191, 250>>   \* wire.TestNet  = 0xdab5bffa
TestNet3 == <<186, 101, 118, 69>>       \* 0xba657645, used by no built-in
EunoRegNet == <<172, 126, 207, 161>>    \* 0xac7ecfa1, a caller's network

(***************************************************************************)
(* Built-in parameter sets (the fields the registry reads, and Checkpoints *)
(* by Height)                                                              *)
(***************************************************************************)
MainNetParams ==
    [Name |-> "main", Net |-> MainNet,
     Checkpoints |-> <<0>>,
     PubKeyHashAddrID |-> 139, ScriptHashAddrID |-> 19,
     PrivateKeyID |-> 239, StakingKeyID |-> 73,
     HDPrivateKeyID |-> <<58, 128, 88, 55>>,
     HDPublicKeyID |-> <<58, 128, 97, 160>>]

RegressionNetParams ==
    [Name |-> "regtest", Net |-> WireTestNet,
     Checkpoints |-> <<>>,
     PubKeyHashAddrID |-> 139, ScriptHashAddrID |-> 19,
     PrivateKeyID |-> 239, StakingKeyID |-> 73,
     HDPrivateKeyID |-> <<4, 53, 131, 148>>,
     HDPublicKeyID |-> <<4, 53, 135, 207>>]

TestNet3Checkpoints_outOfOrder ==
    <<546, 100000, 200000, 300001, 400002, 500011, 700000, 600002,
      800010, 900000, 1000007, 1100007, 1200007, 1300007>>

TestNet3Checkpoints ==
    <<546, 100000, 200000, 300001, 400002, 500011, 600002, 700000,
      800010, 900000, 1000007, 1100007, 1200007, 1300007>>

TestNet3Params ==
    [Name |-> "testnet3", Net |-> WireTestNet3,
     Checkpoints |-> TestNet3Checkpoints,
     PubKeyHashAddrID |-> 111, ScriptHashAddrID |-> 196,
     PrivateKeyID |-> 239, StakingKeyID |-> 0,
     HDPrivateKeyID |-> <<4, 53, 131, 148>>,
     HDPublicKeyID |-> <<4, 53, 135, 207>>]

(***************************************************************************)
(* Parameter sets a caller registers after startup                         *)
(***************************************************************************)
CallerTestNetParams ==
    [Name |-> "test", Net |-> TestNet3,
     Checkpoints |-> <<>>,
     PubKeyHashAddrID |-> 63, ScriptHashAddrID |-> 123,
     PrivateKeyID |-> 100, StakingKeyID |-> 0,
     HDPrivateKeyID |-> <<4, 32, 185, 0>>,
     HDPublicKeyID |-> <<4, 32, 189, 58>>]

\* same magic as CallerTestNetParams, different prefixes and HD versions
CallerTestNetParams2 ==
    [Name |-> "test2", Net |-> TestNet3,
     Checkpoints |-> <<>>,
     PubKeyHashAddrID |-> 33, ScriptHashAddrID |-> 17,
     PrivateKeyID |-> 9, StakingKeyID |-> 64,
     HDPrivateKeyID |-> <<4, 136, 173, 228>>,
     HDPublicKeyID |-> <<4, 136, 178, 30>>]

\* the magic of a built-in network, nothing else in common with it
CallerMainClashParams ==
    [Name |-> "mainclash", Net |-> MainNet,
     Checkpoints |-> <<>>,
     PubKeyHashAddrID |-> 30, ScriptHashAddrID |-> 13,
     PrivateKeyID |-> 212, StakingKeyID |-> 65,
     HDPrivateKeyID |-> <<2, 33, 49, 43>>,
     HDPublicKeyID |-> <<2, 45, 37, 51>>]

\* a new magic, the HD private version of main with another public version
CallerEunoRegParams ==
    [Name |-> "eunoreg", Net |-> EunoRegNet,
     Checkpoints |-> <<>>,
     PubKeyHashAddrID |-> 33, ScriptHashAddrID |-> 17,
     PrivateKeyID |-> 9, StakingKeyID |-> 0,
     HDPrivateKeyID |-> <<58, 128, 88, 55>>,
     HDPublicKeyID |-> <<58, 128, 97, 161>>]

BuiltinPtrs == {"MainNetParams", "TestNet3Params", "RegressionNetParams"}
CallerPtrs == {"CallerTestNetParams", "CallerTestNetParams2",
               "CallerMainClashParams", "CallerEunoRegParams"}
ParamPtrs == BuiltinPtrs \cup CallerPtrs

\* the Params object a pointer refers to, as it was constructed
Deref(ptr) ==
    CASE ptr = "MainNetParams" -> MainNetParams
      [] ptr = "TestNet3Params" -> TestNet3Params
      [] ptr = "RegressionNetParams" -> RegressionNetParams
      [] ptr = "CallerTestNetParams" -> CallerTestNetParams
      [] ptr = "CallerTestNetParams2" -> CallerTestNetParams2
      [] ptr = "CallerMainClashParams" -> CallerMainClashParams
      [] ptr = "CallerEunoRegParams" -> CallerEunoRegParams

\* byte buffers a caller hands in as hdPublicKeyID
PubBufs ==
    [pub4 |-> <<4, 53, 135, 207>>,
     pub4b |-> <<2, 250, 202, 253>>,
     pub3 |-> <<4, 53, 135>>,
     pub5 |-> <<4, 53, 135, 207, 0>>]

\* byte buffers a caller hands in as hdPrivateKeyID, or looks up
PrivBufs ==
    [tprv |-> <<4, 53, 131, 148>>,
     drkv |-> <<2, 250, 195, 152>>,
     main |-> <<58, 128, 88, 55>>,
     sim |-> <<4, 32, 185, 0>>,
     sim3 |-> <<4, 32, 185>>,
     tprv5 |-> <<4, 53, 131, 148, 0>>,
     empty |-> <<>>]

\* bytes a caller asks the prefix queries about
QueryBytes == {0, 17, 19, 30, 33, 63, 73, 111, 139, 196}

(***************************************************************************)
(* Arrays and slices                                                       *)
(***************************************************************************)
\* the two [4]byte fields of a Params object, and the callers' buffers
PubArr(ptr) == <<ptr, "HDPublicKeyID">>
PrivArr(ptr) == <<ptr, "HDPrivateKeyID">>
PubBuf(b) == <<"pubBuf", b>>
PrivBuf(b) == <<"privBuf", b>>

Arrays ==
    {PubArr(ptr) : ptr \in ParamPtrs} \cup {PrivArr(ptr) : ptr \in ParamPtrs}
    \cup {PubBuf(b) : b \in DOMAIN PubBufs} \cup {PrivBuf(b) : b \in DOMAIN PrivBufs}

InitialBytes(a) ==
    CASE a[2] = "HDPublicKeyID" -> Deref(a[1]).HDPublicKeyID
      [] a[2] = "HDPrivateKeyID" -> Deref(a[1]).HDPrivateKeyID
      [] a[1] = "pubBuf" -> PubBufs[a[2]]
      [] a[1] = "privBuf" -> PrivBufs[a[2]]

NilArr == <<"nil", "nil">>
NilSlice == [array |-> NilArr, len |-> 0]

\* a[:] : the slice over a whole backing array
SliceOf(a) == [array |-> a, len |-> Len(mem[a])]

\* the bytes a slice shows
Bytes(s) == IF s.array = NilArr THEN <<>> ELSE SubSeq(mem[s.array], 1, s.len)

\* var key [4]byte; copy(key[:], id)
Copy4(id) == [i \in 1..4 |-> IF i <= Len(id) THEN id[i] ELSE 0]

(***************************************************************************)
(* Registry operations.  An operation that writes returns the maps as they *)
(* are when it returns, together with its error.                           *)
(***************************************************************************)

\* m[k] = v on a Go map
MapPut(m, k, v) == [x \in DOMAIN m \cup {k} |-> IF x = k THEN v ELSE m[x]]

RegisterHDKeyID_andCheck(hd, hdPublicKeyID, hdPrivateKeyID) ==
    IF hdPublicKeyID.len # 4 /\ hdPrivateKeyID.len # 4
    THEN [err |-> ErrInvalidHDKeyID, hd |-> hd]
    ELSE [err |-> NoErr,
          hd |-> MapPut(hd, Copy4(Bytes(hdPrivateKeyID)), hdPublicKeyID)]

RegisterHDKeyID_replaceMap(hd, hdPublicKeyID, hdPrivateKeyID) ==
    IF hdPublicKeyID.len # 4 \/ hdPrivateKeyID.len # 4
    THEN [err |-> ErrInvalidHDKeyID, hd |-> hd]
    ELSE [err |-> NoErr,
          hd |-> MapPut(<<>>, Copy4(Bytes(hdPrivateKeyID)), hdPublicKeyID)]

\* RegisterHDKeyID(hdPublicKeyID []byte, hdPrivateKeyID []byte) error
\* hd is hdPrivToPubKeyIDs on entry.  The private version is copied into the
\* key; the public version is stored as the slice that was handed in.
RegisterHDKeyID(hd, hdPublicKeyID, hdPrivateKeyID) ==
    IF hdPublicKeyID.len # 4 \/ hdPrivateKeyID.len # 4
    THEN [err |-> ErrInvalidHDKeyID, hd |-> hd]
    ELSE [err |-> NoErr,
          hd |-> MapPut(hd, Copy4(Bytes(hdPrivateKeyID)), hdPublicKeyID)]

\* a return that has written nothing
Unchanged(err) ==
    [err |-> err, nets |-> registeredNets, pkh |-> pubKeyHashAddrIDs,
     sh |-> scriptHashAddrIDs, stk |-> stakingHashAddrIDs,
     hd |-> hdPrivToPubKeyIDs]

Inserted_skipsUnsetStakingKeyID(params, hdPublicKeyID, hdPrivateKeyID) ==
    LET p == Deref(params)
        r == RegisterHDKeyID(hdPrivToPubKeyIDs, hdPublicKeyID, hdPrivateKeyID)
    IN  [err |-> r.err,
         nets |-> registeredNets \cup {p.Net},
         pkh |-> pubKeyHashAddrIDs \cup {p.PubKeyHashAddrID},
         sh |-> scriptHashAddrIDs \cup {p.ScriptHashAddrID},
         stk |-> IF p.StakingKeyID = 0 THEN stakingHashAddrIDs
                 ELSE stakingHashAddrIDs \cup {p.StakingKeyID},
         hd |-> r.hd]

\* the four inserts of Register and its RegisterHDKeyID call
Inserted(params, hdPublicKeyID, hdPrivateKeyID) ==
    LET p == Deref(params)
        r == RegisterHDKeyID(hdPrivToPubKeyIDs, hdPublicKeyID, hdPrivateKeyID)
    IN  [err |-> r.err,
         nets |-> registeredNets \cup {p.Net},
         pkh |-> pubKeyHashAddrIDs \cup {p.PubKeyHashAddrID},
         sh |-> scriptHashAddrIDs \cup {p.ScriptHashAddrID},
         stk |-> stakingHashAddrIDs \cup {p.StakingKeyID},
         hd |-> r.hd]

Register_insertBeforeCheck(params) ==
    LET p == Deref(params)
        r == Inserted(params, SliceOf(PubArr(params)), SliceOf(PrivArr(params)))
    IN  IF p.Net \in registeredNets
        THEN [r EXCEPT !.err = ErrDuplicateNet, !.hd = hdPrivToPubKeyIDs]
        ELSE r

Register_netNotRecorded(params) ==
    IF Deref(params).Net \in registeredNets
    THEN Unchanged(ErrDuplicateNet)
    ELSE [Inserted(params, SliceOf(PubArr(params)), SliceOf(PrivArr(params)))
            EXCEPT !.nets = registeredNets]

Register_swappedHDKeyIDs(params) ==
    IF Deref(params).Net \in registeredNets
    THEN Unchanged(ErrDuplicateNet)
    ELSE Inserted(params, SliceOf(PrivArr(params)), SliceOf(PubArr(params)))

\* Register(params *Params) error
Register(params) ==
    IF Deref(params).Net \in registeredNets
    THEN Unchanged(ErrDuplicateNet)
    ELSE Inserted(params, SliceOf(PubArr(params)), SliceOf(PrivArr(params)))

IsPubKeyHashAddrID(id) == id \in pubKeyHashAddrIDs

IStakingAddrID_readsScriptHash(id) == id \in scriptHashAddrIDs

IStakingAddrID(id) == id \in stakingHashAddrIDs

IsScriptHashAddrID(id) == id \in scriptHashAddrIDs

\* the lookup in hdPrivToPubKeyIDs, after the length check
LookupKey(id) ==
    LET key == Copy4(Bytes(id)) IN
    IF key \notin DOMAIN hdPrivToPubKeyIDs
    THEN [res |-> NilSlice, err |-> ErrUnknownHDKeyID]
    ELSE [res |-> hdPrivToPubKeyIDs[key], err |-> NoErr]

HDPrivateKeyToPublicKeyID_noLengthCheck(id) == LookupKey(id)

\* HDPrivateKeyToPublicKeyID(id []byte) ([]byte, error)
HDPrivateKeyToPublicKeyID(id) ==
    IF id.len # 4
    THEN [res |-> NilSlice, err |-> ErrUnknownHDKeyID]
    ELSE LookupKey(id)

(***************************************************************************)
(* Calls                                                                   *)
(***************************************************************************)
NoCall ==
    [op |-> "none", by |-> "caller", params |-> "none", pub |-> NilSlice, priv |-> NilSlice,
     id |-> 0, ok |-> FALSE, res |-> NilSlice, err |-> NoErr]

\* what a Params object holds when Register is called on it
Snapshot(params) ==
    [Deref(params) EXCEPT !.HDPublicKeyID = mem[PubArr(params)],
                          !.HDPrivateKeyID = mem[PrivArr(params)]]

\* the effect of one Register call, made by init() or by a caller, on the
\* registry and on the histories
DoRegister(params, by) ==
    LET r == Register(params) IN
    /\ registeredNets' = r.nets
    /\ pubKeyHashAddrIDs' = r.pkh
    /\ scriptHashAddrIDs' = r.sh
    /\ stakingHashAddrIDs' = r.stk
    /\ hdPrivToPubKeyIDs' = r.hd
    /\ last' = [NoCall EXCEPT !.op = "Register", !.by = by, !.params = params,
                               !.err = r.err]
    /\ accepted' = IF r.err = NoErr THEN Append(accepted, Snapshot(params))
                   ELSE accepted
    /\ UNCHANGED <<mem, hdStored, goroutines>>

\* init(): the built-in registered first, and the position after each
InitFirst == "MainNetParams"

InitNext(ptr) ==
    CASE ptr = "MainNetParams" -> "TestNet3Params"
      [] ptr = "TestNet3Params" -> "RegressionNetParams"
      [] ptr = "RegressionNetParams" -> "done"

\* one mustRegister call of init(): panic when Register returns an error
mustRegister ==
    /\ pc \in BuiltinPtrs
    /\ DoRegister(pc, "init")
    /\ pc' = IF Register(pc).err # NoErr THEN "panic" ELSE InitNext(pc)

\* a caller registers a parameter set after package initialisation
CallRegister ==
    /\ pc = "done"
    /\ Len(accepted) < MaxAccepted
    /\ \E params \in ParamPtrs : DoRegister(params, "caller")
    /\ UNCHANGED pc

CallRegisterHDKeyID ==
    /\ pc = "done"
    /\ \E pb \in DOMAIN PubBufs, vb \in DOMAIN PrivBufs :
          LET pub == SliceOf(PubBuf(pb))
              priv == SliceOf(PrivBuf(vb))
              r == RegisterHDKeyID(hdPrivToPubKeyIDs, pub, priv)
          IN  /\ hdPrivToPubKeyIDs' = r.hd
              /\ last' = [NoCall EXCEPT !.op = "RegisterHDKeyID", !.pub = pub,
                                        !.priv = priv, !.err = r.err]
              /\ hdStored' = IF r.err = NoErr THEN hdStored \cup {Bytes(priv)}
                             ELSE hdStored
    /\ UNCHANGED <<pc, registeredNets, pubKeyHashAddrIDs, scriptHashAddrIDs,
                   stakingHashAddrIDs, mem, accepted, goroutines>>

CallIsPubKeyHashAddrID ==
    /\ pc = "done"
    /\ \E id \in QueryBytes :
          last' = [NoCall EXCEPT !.op = "IsPubKeyHashAddrID", !.id = id,
                                 !.ok = IsPubKeyHashAddrID(id)]
    /\ UNCHANGED <<pc, registry, mem, accepted, hdStored, goroutines>>

CallIStakingAddrID ==
    /\ pc = "done"
    /\ \E id \in QueryBytes :
          last' = [NoCall EXCEPT !.op = "IStakingAddrID", !.id = id,
                                 !.ok = IStakingAddrID(id)]
    /\ UNCHANGED <<pc, registry, mem, accepted, hdStored, goroutines>>

CallIsScriptHashAddrID ==
    /\ pc = "done"
    /\ \E id \in QueryBytes :
          last' = [NoCall EXCEPT !.op = "IsScriptHashAddrID", !.id = id,
                                 !.ok = IsScriptHashAddrID(id)]
    /\ UNCHANGED <<pc, registry, mem, accepted, hdStored, goroutines>>

CallHDPrivateKeyToPublicKeyID ==
    /\ pc = "done"
    /\ \E vb \in DOMAIN PrivBufs :
          LET id == SliceOf(PrivBuf(vb))
              r == HDPrivateKeyToPublicKeyID(id)
          IN  last' = [NoCall EXCEPT !.op = "HDPrivateKeyToPublicKeyID",
                                     !.priv = id, !.res = r.res, !.err = r.err]
    /\ UNCHANGED <<pc, registry, mem, accepted, hdStored, goroutines>>

\* the goroutines that call into the registry concurrently after startup:
\* two run Register, one runs IsPubKeyHashAddrID
RegisterGoroutines == {"r1", "r2"}
QueryGoroutines == {"q"}
Goroutines == RegisterGoroutines \cup QueryGoroutines

\* a goroutine that has not made its call
Idle == [at |-> "idle", params |-> "none", id |-> 0, ok |-> FALSE, err |-> NoErr]

\* the package-level variables before init() runs
Init ==
    /\ pc = InitFirst
    /\ registeredNets = {}
    /\ pubKeyHashAddrIDs = {}
    /\ scriptHashAddrIDs = {}
    /\ stakingHashAddrIDs = {}
    /\ hdPrivToPubKeyIDs = <<>>
    /\ mem = [a \in Arrays |-> InitialBytes(a)]
    /\ last = NoCall
    /\ accepted = <<>>
    /\ hdStored = {}
    /\ goroutines = [t \in Goroutines |-> Idle]

Next ==
    \/ mustRegister
    \/ CallRegister
    \/ CallRegisterHDKeyID
    \/ CallIsPubKeyHashAddrID
    \/ CallIStakingAddrID
    \/ CallIsScriptHashAddrID
    \/ CallHDPrivateKeyToPublicKeyID

Spec == Init /\ [][Next]_vars

(***************************************************************************)
(* A caller writing to memory it holds a reference to.  Register and       *)
(* RegisterHDKeyID store the slice they are handed and                     *)
(* HDPrivateKeyToPublicKeyID returns the stored slice, so the caller and   *)
(* the map share these arrays.                                             *)
(***************************************************************************)
\* the byte a caller writes
WrittenByte == 255

WrittenArrays == {a \in Arrays : mem[a] # InitialBytes(a)}

\* s[0] = WrittenByte on a non-empty slice s
WriteFirst(s, op) ==
    /\ s.len > 0
    /\ s.array \in WrittenArrays \/ Cardinality(WrittenArrays) < MaxWrites
    /\ mem' = [mem EXCEPT ![s.array][1] = WrittenByte]
    /\ last' = [NoCall EXCEPT !.op = op, !.pub = s]
    /\ UNCHANGED <<pc, registry, accepted, hdStored, goroutines>>

\* the caller writes into the slice HDPrivateKeyToPublicKeyID just returned
WriteReturnedSlice ==
    /\ pc = "done"
    /\ last.op = "HDPrivateKeyToPublicKeyID"
    /\ last.err = NoErr
    /\ WriteFirst(last.res, "WriteReturnedSlice")

\* the caller changes HDPublicKeyID of the Params it has just registered
WriteParamsField ==
    /\ pc = "done"
    /\ last.op = "Register"
    /\ last.err = NoErr
    /\ WriteFirst(SliceOf(PubArr(last.params)), "WriteParamsField")

\* the caller writes into the slice it has just passed to RegisterHDKeyID
WritePassedSlice ==
    /\ pc = "done"
    /\ last.op = "RegisterHDKeyID"
    /\ last.err = NoErr
    /\ WriteFirst(last.pub, "WritePassedSlice")

\* registration, lookup and the caller's writes (the prefix queries neither
\* read nor write the HD mapping)
NextCaller ==
    \/ mustRegister
    \/ CallRegister
    \/ CallRegisterHDKeyID
    \/ CallHDPrivateKeyToPublicKeyID
    \/ WriteReturnedSlice
    \/ WriteParamsField
    \/ WritePassedSlice

SpecCaller == Init /\ [][NextCaller]_vars

(***************************************************************************)
(* Concurrent calls after startup.  Register takes no lock, so each of its *)
(* map accesses is a step of its own and the steps of different goroutines *)
(* interleave.  at is the source line a goroutine executes next.           *)
(***************************************************************************)
NoAccess == [map |-> "none", write |-> FALSE]

\* the map access a goroutine performs next
Access(t) ==
    LET at == goroutines[t].at IN
    CASE at = "line587" -> [map |-> "registeredNets", write |-> FALSE]
      [] at = "line590" -> [map |-> "registeredNets", write |-> TRUE]
      [] at = "line591" -> [map |-> "pubKeyHashAddrIDs", write |-> TRUE]
      [] at = "line592" -> [map |-> "scriptHashAddrIDs", write |-> TRUE]
      [] at = "line593" -> [map |-> "stakingHashAddrIDs", write |-> TRUE]
      [] at = "line631" -> [map |-> "hdPrivToPubKeyIDs", write |-> TRUE]
      [] at = "line610" -> [map |-> "pubKeyHashAddrIDs", write |-> FALSE]
      [] OTHER -> NoAccess

\* another goroutine is about to access the same map, and one of the two writes
Racing(t) ==
    /\ Access(t) # NoAccess
    /\ \E u \in Goroutines \ {t} :
          /\ Access(u).map = Access(t).map
          /\ Access(t).write \/ Access(u).write

DataRace == \E t \in Goroutines : Racing(t)

\* what an unsynchronised map access can do: take effect, be lost (writes
\* only), or make the runtime throw "concurrent map writes" / "concurrent
\* map read and map write"
Outcomes(t) ==
    IF ~Racing(t) THEN {"done"}
    ELSE IF Access(t).write THEN {"done", "lost", "fatal"}
    ELSE {"done", "fatal"}

\* the goroutine moves on, or the process dies
Proceed(t, o, g) ==
    /\ pc' = IF o = "fatal" THEN "fatal" ELSE pc
    /\ goroutines' = IF o = "fatal" THEN goroutines ELSE [goroutines EXCEPT ![t] = g]

\* go Register(params)
GoRegister ==
    /\ pc = "done"
    /\ \E t \in RegisterGoroutines, params \in ParamPtrs :
          /\ goroutines[t].at = "idle"
          /\ goroutines' = [goroutines EXCEPT ![t] =
                               [Idle EXCEPT !.at = "line587", !.params = params]]
    /\ UNCHANGED <<pc, registry, mem, last, accepted, hdStored>>

\* if _, ok := registeredNets[params.Net]; ok { return ErrDuplicateNet }
RegisterCheckNet ==
    /\ pc = "done"
    /\ \E t \in RegisterGoroutines : \E o \in Outcomes(t) :
          LET g == goroutines[t] IN
          /\ g.at = "line587"
          /\ Proceed(t, o, IF Deref(g.params).Net \in registeredNets
                           THEN [g EXCEPT !.at = "returned", !.err = ErrDuplicateNet]
                           ELSE [g EXCEPT !.at = "line590"])
    /\ UNCHANGED <<registry, mem, last, accepted, hdStored>>

\* registeredNets[params.Net] = struct{}{}
RegisterInsertNet ==
    /\ pc = "done"
    /\ \E t \in RegisterGoroutines : \E o \in Outcomes(t) :
          LET g == goroutines[t] IN
          /\ g.at = "line590"
          /\ registeredNets' = IF o = "done"
                               THEN registeredNets \cup {Deref(g.params).Net}
                               ELSE registeredNets
          /\ Proceed(t, o, [g EXCEPT !.at = "line591"])
    /\ UNCHANGED <<pubKeyHashAddrIDs, scriptHashAddrIDs, stakingHashAddrIDs,
                   hdPrivToPubKeyIDs, mem, last, accepted, hdStored>>

\* pubKeyHashAddrIDs[params.PubKeyHashAddrID] = struct{}{}
RegisterInsertPubKeyHash ==
    /\ pc = "done"
    /\ \E t \in RegisterGoroutines : \E o \in Outcomes(t) :
          LET g == goroutines[t] IN
          /\ g.at = "line591"
          /\ pubKeyHashAddrIDs' = IF o = "done"
                                  THEN pubKeyHashAddrIDs \cup {Deref(g.params).PubKeyHashAddrID}
                                  ELSE pubKeyHashAddrIDs
          /\ Proceed(t, o, [g EXCEPT !.at = "line592"])
    /\ UNCHANGED <<registeredNets, scriptHashAddrIDs, stakingHashAddrIDs,
                   hdPrivToPubKeyIDs, mem, last, accepted, hdStored>>

\* scriptHashAddrIDs[params.ScriptHashAddrID] = struct{}{}
RegisterInsertScriptHash ==
    /\ pc = "done"
    /\ \E t \in RegisterGoroutines : \E o \in Outcomes(t) :
          LET g == goroutines[t] IN
          /\ g.at = "line592"
          /\ scriptHashAddrIDs' = IF o = "done"
                                  THEN scriptHashAddrIDs \cup {Deref(g.params).ScriptHashAddrID}
                                  ELSE scriptHashAddrIDs
          /\ Proceed(t, o, [g EXCEPT !.at = "line593"])
    /\ UNCHANGED <<registeredNets, pubKeyHashAddrIDs, stakingHashAddrIDs,
                   hdPrivToPubKeyIDs, mem, last, accepted, hdStored>>

\* stakingHashAddrIDs[params.StakingKeyID] = struct{}{}
RegisterInsertStaking ==
    /\ pc = "done"
    /\ \E t \in RegisterGoroutines : \E o \in Outcomes(t) :
          LET g == goroutines[t] IN
          /\ g.at = "line593"
          /\ stakingHashAddrIDs' = IF o = "done"
                                   THEN stakingHashAddrIDs \cup {Deref(g.params).StakingKeyID}
                                   ELSE stakingHashAddrIDs
          /\ Proceed(t, o, [g EXCEPT !.at = "line631"])
    /\ UNCHANGED <<registeredNets, pubKeyHashAddrIDs, scriptHashAddrIDs,
                   hdPrivToPubKeyIDs, mem, last, accepted, hdStored>>

\* err := RegisterHDKeyID(params.HDPublicKeyID[:], params.HDPrivateKeyID[:])
\* and the return of Register
RegisterStoreHDKeyID ==
    /\ pc = "done"
    /\ \E t \in RegisterGoroutines : \E o \in Outcomes(t) :
          LET g == goroutines[t]
              r == RegisterHDKeyID(hdPrivToPubKeyIDs, SliceOf(PubArr(g.params)),
                                   SliceOf(PrivArr(g.params)))
          IN  /\ g.at = "line631"
              /\ hdPrivToPubKeyIDs' = IF o = "done" THEN r.hd ELSE hdPrivToPubKeyIDs
              /\ Proceed(t, o, [g EXCEPT !.at = "returned", !.err = r.err])
              /\ accepted' = IF o # "fatal" /\ r.err = NoErr
                             THEN Append(accepted, Snapshot(g.params))
                             ELSE accepted
    /\ UNCHANGED <<registeredNets, pubKeyHashAddrIDs, scriptHashAddrIDs,
                   stakingHashAddrIDs, mem, last, hdStored>>

\* go IsPubKeyHashAddrID(id)
GoIsPubKeyHashAddrID ==
    /\ pc = "done"
    /\ \E t \in QueryGoroutines, id \in QueryBytes :
          /\ goroutines[t].at = "idle"
          /\ goroutines' = [goroutines EXCEPT ![t] =
                               [Idle EXCEPT !.at = "line610", !.id = id]]
    /\ UNCHANGED <<pc, registry, mem, last, accepted, hdStored>>

\* _, ok := pubKeyHashAddrIDs[id]; return ok
QueryReadPubKeyHash ==
    /\ pc = "done"
    /\ \E t \in QueryGoroutines : \E o \in Outcomes(t) :
          LET g == goroutines[t] IN
          /\ g.at = "line610"
          /\ Proceed(t, o, [g EXCEPT !.at = "returned", !.ok = IsPubKeyHashAddrID(g.id)])
    /\ UNCHANGED <<registry, mem, last, accepted, hdStored>>

NextConcurrent ==
    \/ mustRegister
    \/ GoRegister
    \/ RegisterCheckNet
    \/ RegisterInsertNet
    \/ RegisterInsertPubKeyHash
    \/ RegisterInsertScriptHash
    \/ RegisterInsertStaking
    \/ RegisterStoreHDKeyID
    \/ GoIsPubKeyHashAddrID
    \/ QueryReadPubKeyHash

SpecConcurrent == Init /\ [][NextConcurrent]_vars

(***************************************************************************)
(* Properties                                                              *)
(***************************************************************************)
AcceptedNets == {accepted[i].Net : i \in DOMAIN accepted}

\* the private versions stored by calls that returned nil
StoredPrivs == {accepted[i].HDPrivateKeyID : i \in DOMAIN accepted} \cup hdStored

\* C1: Register(p) returns an error if and only if p.Net is already in
\* registeredNets when it is called; the error is ErrDuplicateNet, and the
\* call leaves registeredNets, the three prefix sets and hdPrivToPubKeyIDs
\* as they were, whatever prefixes and HD versions p carries.
C1_DuplicateRejectedUntouched ==
    [][last'.op = "Register" =>
          /\ (last'.err # NoErr) <=> (Deref(last'.params).Net \in registeredNets)
          /\ last'.err # NoErr =>
                /\ last'.err = ErrDuplicateNet
                /\ UNCHANGED registry]_vars

\* a rejected Register whose prefixes nobody registered, while what the first
\* registration of that magic stored still resolves
C1_Witness ==
    /\ last.op = "Register"
    /\ last.params = "CallerTestNetParams2"
    /\ last.err = ErrDuplicateNet
    /\ ~IsPubKeyHashAddrID(CallerTestNetParams2.PubKeyHashAddrID)
    /\ IsPubKeyHashAddrID(CallerTestNetParams.PubKeyHashAddrID)
    /\ HDPrivateKeyToPublicKeyID(SliceOf(PrivArr("CallerTestNetParams"))).err = NoErr

\* C2: for every magic at most one Register call carrying it has returned
\* nil, and registeredNets is exactly the set of magics of those calls.
C2_MagicUnique ==
    /\ \A i, j \in DOMAIN accepted : accepted[i].Net = accepted[j].Net => i = j
    /\ registeredNets = AcceptedNets

\* two caller networks accepted after startup, and a duplicate just rejected
C2_Witness ==
    /\ Len(accepted) = 5
    /\ last.op = "Register"
    /\ last.err = ErrDuplicateNet

\* C3: each prefix query answers true exactly for the bytes that some
\* accepted parameter set declares in the corresponding field.
C3_PrefixQueriesExact ==
    \A b \in Byte :
       /\ IsPubKeyHashAddrID(b) <=>
             \E i \in DOMAIN accepted : accepted[i].PubKeyHashAddrID = b
       /\ IsScriptHashAddrID(b) <=>
             \E i \in DOMAIN accepted : accepted[i].ScriptHashAddrID = b
       /\ IStakingAddrID(b) <=>
             \E i \in DOMAIN accepted : accepted[i].StakingKeyID = b

\* a duplicate with fresh prefixes was just rejected: 0x6f is known from
\* testnet3, the rejected prefixes and 0 are not
C3_Witness ==
    /\ last.op = "Register"
    /\ last.params = "CallerMainClashParams"
    /\ last.err = ErrDuplicateNet
    /\ IsPubKeyHashAddrID(111)
    /\ ~IsPubKeyHashAddrID(0)
    /\ ~IsPubKeyHashAddrID(CallerMainClashParams.PubKeyHashAddrID)
    /\ ~IsScriptHashAddrID(CallerMainClashParams.ScriptHashAddrID)
    /\ ~IStakingAddrID(CallerMainClashParams.StakingKeyID)

\* C4: right after Register(p) has returned nil, looking up p.HDPrivateKeyID
\* returns a nil error and the four bytes of p.HDPublicKeyID.
C4_HDRoundTrip ==
    (last.op = "Register" /\ last.err = NoErr) =>
        LET r == HDPrivateKeyToPublicKeyID(SliceOf(PrivArr(last.params))) IN
        /\ r.err = NoErr
        /\ Bytes(r.res) = accepted[Len(accepted)].HDPublicKeyID
        /\ Len(Bytes(r.res)) = 4

\* a caller's network was just accepted whose private version main had
\* registered with another public version
C4_Witness ==
    /\ last.op = "Register"
    /\ last.params = "CallerEunoRegParams"
    /\ last.err = NoErr
    /\ Bytes(HDPrivateKeyToPublicKeyID(SliceOf(PrivArr("MainNetParams"))).res)
          = <<58, 128, 97, 161>>

\* C5: HDPrivateKeyToPublicKeyID(id) returns ErrUnknownHDKeyID and a nil
\* slice exactly when id is not 4 bytes long or no call that returned nil
\* has stored it; otherwise a nil error and 4 bytes.  The registry is
\* unchanged either way.
C5_LookupErrors ==
    [][last'.op = "HDPrivateKeyToPublicKeyID" =>
          /\ UNCHANGED registry
          /\ IF last'.priv.len # 4 \/ Bytes(last'.priv) \notin StoredPrivs
             THEN last'.err = ErrUnknownHDKeyID /\ last'.res = NilSlice
             ELSE last'.err = NoErr /\ Len(Bytes(last'.res)) = 4]_vars

\* a 3-byte id was just refused although its zero-padded form is registered
C5_Witness ==
    /\ last.op = "HDPrivateKeyToPublicKeyID"
    /\ Bytes(last.priv) = <<4, 32, 185>>
    /\ last.err = ErrUnknownHDKeyID
    /\ <<4, 32, 185, 0>> \in DOMAIN hdPrivToPubKeyIDs

\* what the private version of the last call resolves to
LastPrivResolved == HDPrivateKeyToPublicKeyID(last.priv)

\* C6: RegisterHDKeyID(pub, priv) returns ErrInvalidHDKeyID and changes
\* nothing when pub or priv is not 4 bytes long; otherwise it returns nil
\* and priv then resolves to pub.
C6_RegisterHDKeyIDLengths ==
    [][last'.op = "RegisterHDKeyID" =>
          IF last'.pub.len # 4 \/ last'.priv.len # 4
          THEN last'.err = ErrInvalidHDKeyID /\ UNCHANGED registry
          ELSE /\ last'.err = NoErr
               /\ LastPrivResolved' = [res |-> last'.pub, err |-> NoErr]]_vars

\* a 4-byte public version with a 3-byte private version was just refused
C6_Witness ==
    /\ last.op = "RegisterHDKeyID"
    /\ last.pub.len = 4
    /\ last.priv.len = 3
    /\ last.err = ErrInvalidHDKeyID

\* C7: no step removes an element from registeredNets, from a prefix set or
\* from the keys of hdPrivToPubKeyIDs, and the four queries change no
\* registry structure.
C7_InsertOnly ==
    [][/\ registeredNets \subseteq registeredNets'
       /\ pubKeyHashAddrIDs \subseteq pubKeyHashAddrIDs'
       /\ scriptHashAddrIDs \subseteq scriptHashAddrIDs'
       /\ stakingHashAddrIDs \subseteq stakingHashAddrIDs'
       /\ DOMAIN hdPrivToPubKeyIDs \subseteq DOMAIN hdPrivToPubKeyIDs'
       /\ last'.op \in {"IsPubKeyHashAddrID", "IsScriptHashAddrID",
                        "IStakingAddrID", "HDPrivateKeyToPublicKeyID"}
             => UNCHANGED registry]_vars

\* RegisterHDKeyID has added a key to a map that held others, and a query
\* has run since
C7_Witness ==
    /\ <<2, 250, 195, 152>> \in DOMAIN hdPrivToPubKeyIDs
    /\ Cardinality(DOMAIN hdPrivToPubKeyIDs) >= 4
    /\ last.op = "IStakingAddrID"
    /\ last.ok

BuiltinNets == {MainNetParams.Net, TestNet3Params.Net, RegressionNetParams.Net}

\* C8: init() never panics; once it is done the three built-in magics are
\* registered, and a later Register of a built-in returns ErrDuplicateNet.
C8_StartupRegistersBuiltins ==
    /\ pc # "panic"
    /\ pc = "done" =>
          /\ Cardinality(BuiltinNets) = 3
          /\ BuiltinNets \subseteq registeredNets
          /\ (last.op = "Register" /\ last.by = "caller"
                /\ last.params \in BuiltinPtrs) => last.err = ErrDuplicateNet

\* startup is over and a caller has just registered testnet3 again
C8_Witness ==
    /\ pc = "done"
    /\ Len(accepted) = 3
    /\ last.op = "Register"
    /\ last.by = "caller"
    /\ last.params = "TestNet3Params"
    /\ last.err = ErrDuplicateNet

\* C9: the PubKeyHashAddrID values of main, testnet3 and regtest are
\* pairwise distinct, and after init() IsPubKeyHashAddrID is true for each.
C9_BuiltinPubKeyHashPrefixesDistinct ==
    pc = "done" =>
       /\ MainNetParams.PubKeyHashAddrID # TestNet3Params.PubKeyHashAddrID
       /\ MainNetParams.PubKeyHashAddrID # RegressionNetParams.PubKeyHashAddrID
       /\ TestNet3Params.PubKeyHashAddrID # RegressionNetParams.PubKeyHashAddrID
       /\ \A ptr \in BuiltinPtrs : IsPubKeyHashAddrID(Deref(ptr).PubKeyHashAddrID)

StrictlyIncreasing(heights) ==
    \A i, j \in DOMAIN heights : i < j => heights[i] < heights[j]

\* C10: the Checkpoints of every built-in parameter set, as declared and as
\* registered at startup, are strictly increasing in Height.
C10_CheckpointsIncreasing ==
    /\ \A ptr \in BuiltinPtrs : StrictlyIncreasing(Deref(ptr).Checkpoints)
    /\ \A i \in DOMAIN accepted : StrictlyIncreasing(accepted[i].Checkpoints)

\* startup is over: the 14 checkpoints of testnet3, the single one of main
\* and the empty list of regtest have all been registered
C10_Witness ==
    /\ pc = "done"
    /\ \E i \in DOMAIN accepted : Len(accepted[i].Checkpoints) = 14
    /\ \E i \in DOMAIN accepted : Len(accepted[i].Checkpoints) = 1
    /\ \E i \in DOMAIN accepted :
          accepted[i].Name = "regtest" /\ accepted[i].Checkpoints = <<>>

\* what a caller's private-version buffer resolves to, as bytes
ResolvedBytes(vb) == Bytes(HDPrivateKeyToPublicKeyID(SliceOf(PrivBuf(vb))).res)

\* C11: once a 4-byte private version resolves to a public version, it
\* resolves to the same public version after every later call, Register and
\* RegisterHDKeyID calls included.
C11_ResolvedVersionNeverChanges ==
    [][\A vb \in DOMAIN PrivBufs :
          HDPrivateKeyToPublicKeyID(SliceOf(PrivBuf(vb))).err = NoErr
             => ResolvedBytes(vb)' = ResolvedBytes(vb)]_vars

\* C14: after startup and before any further registration, IStakingAddrID
\* is true for exactly 73 (main, regtest) and 0 (testnet3 leaves StakingKeyID
\* unset), while 0 is neither a public-key-hash nor a script-hash prefix.
C14_UnsetStakingKeyIDRegistered ==
    (pc = "done" /\ Len(accepted) = 3) =>
        /\ \A b \in Byte : IStakingAddrID(b) <=> b \in {0, 73}
        /\ ~IsPubKeyHashAddrID(0)
        /\ ~IsScriptHashAddrID(0)

\* only the built-ins are registered and a caller was just told that 0 is a
\* staking prefix
C14_Witness ==
    /\ pc = "done"
    /\ Len(accepted) = 3
    /\ TestNet3Params.StakingKeyID = 0
    /\ last.op = "IStakingAddrID"
    /\ last.id = 0
    /\ last.ok

\* C13: the bytes a private version resolves to are isolated from callers:
\* no write by a caller into a returned slice, into the HDPublicKeyID field
\* of a registered Params or into a slice passed to RegisterHDKeyID changes
\* what any private version resolves to.
C13_StoredVersionsIsolated ==
    [][last'.op \in {"WriteReturnedSlice", "WriteParamsField", "WritePassedSlice"}
          => \A vb \in DOMAIN PrivBufs : ResolvedBytes(vb)' = ResolvedBytes(vb)]_vars

\* C12: of two concurrent Register calls with the same magic at most one
\* returns nil and the other returns ErrDuplicateNet, and no two goroutines
\* ever access the same registry map at once with one of them writing.
C12_ConcurrentRegistrationSafe ==
    /\ ~DataRace
    /\ \A t, u \in RegisterGoroutines :
          (/\ t # u
           /\ goroutines[t].at = "returned"
           /\ goroutines[u].at = "returned"
           /\ Deref(goroutines[t].params).Net = Deref(goroutines[u].params).Net)
          => \/ goroutines[t].err = ErrDuplicateNet
             \/ goroutines[u].err = ErrDuplicateNet

====
